---- MODULE Spec2Model ----
(***************************************************************************)
(* Short-link lifecycle of url-shortner: the short_url table, the two      *)
(* HTTP handlers (shortLinkHandler, redirectUrlHandler), the four store    *)
(* operations of database.go and the cron job that deletes expired links.  *)
(*                                                                         *)
(* Time is counted in whole minutes; the API process and PostgreSQL read   *)
(* the same clock.  Every request runs on its own goroutine, every SQL     *)
(* statement is one atomic step of the store.  exp_time_minutes stays in   *)
(* the range where time.Duration(n) * time.Minute does not overflow.       *)
(***************************************************************************)
EXTENDS Integers, Sequences, FiniteSets, TLC

\* ---- bounds ----------------------------------------------------------
NumRequests == 3
\* minutes observed: two firings of the cron entry
MaxTime == 2
\* largest exp_time_minutes a request asks for
MaxTTL == 1

\* ---- value domains ---------------------------------------------------
Requests == 1..NumRequests
Links == {"https://example.com", "https://example.org"}
\* exp_time_minutes of a request: 0, or a lifespan that ends within the horizon
TTLs == 0..MaxTTL
\* outcome of one round trip to PostgreSQL: it answers, it answers with a
\* server-side error (*pgconn.PgError), or the connection fails
Faults == {"none", "PgError", "ConnError"}
\* db.Exec reports any failure the same way
ExecFaults == {"none", "ConnError"}

\* generateRandomString(8): two of the strings of 8 letters it can return
Codes == {"aBcDeFgH", "ZyXwVuTs"}

\* a *ShortUrlModel is <<>> (nil) or <<m>>
Nil == <<>>
ZeroTime == -1
ShortUrlModel(id, link, clicks, ttl, created, code) ==
    [Id |-> id, Link |-> link, TimesClicked |-> clicks, ExpTimeMinutes |-> ttl,
     CreatedAt |-> created, ShortCode |-> code]
\* &ShortUrlModel{}
ZeroModel == ShortUrlModel(0, "", 0, 0, ZeroTime, "")

VARIABLES
    store,      \* rows of table short_url
    nextId,     \* the SERIAL sequence behind short_url.id
    assigned,   \* every short_code ever inserted
    now,        \* the clock, in minutes
    cronDue,    \* the cron entry "*/1 * * * *" is due and has not run yet
    reaped,     \* result of the last DeleteExpiredLinks run
    pc,         \* per request: position in its handler
    handler,    \* per request: "", "shortLink" or "redirect"
    shortCode,  \* redirectUrlHandler: shortCode
    new,        \* shortLinkHandler: new
    scanErr,    \* err of QueryRow(...).Scan inside the store operation
    entity,     \* entity returned to the handler
    err,        \* err returned to the handler
    resp        \* bodies and redirects written to the ResponseWriter

vars == <<store, nextId, assigned, now, cronDue, reaped, pc, handler, shortCode,
          new, scanErr, entity, err, resp>>

reqVars == <<pc, handler, shortCode, new, scanErr, entity, err, resp>>

\* ---- the store (database.go) ------------------------------------------
Row(id, link, clicks, ttl, created, code) ==
    [id |-> id, link |-> link, times_clicked |-> clicks,
     exp_time_minutes |-> ttl, created_at |-> created, short_code |-> code]

RowsOf(st, code) == {r \in st : r.short_code = code}

\* INSERT ... VALUES ($1, 0, $2, $3): id from the sequence, created_at DEFAULT
\* NOW(); the table has no constraint on short_code
InsertRow(id, m, t) == Row(id, m.Link, 0, m.ExpTimeMinutes, t, m.ShortCode)

\* SaveShortUrl: the table afterwards, the error of the scan, and the two
\* values returned; an error that is no *pgconn.PgError falls through to
\* "return inserted, nil"
SaveShortUrl(st, id, m, t, fault) ==
    IF fault = "PgError"
    THEN [store |-> st, scanErr |-> "PgError", entity |-> Nil, err |-> "PgError"]
    ELSE IF fault = "ConnError"
    THEN [store |-> st, scanErr |-> "ConnError", entity |-> <<ZeroModel>>, err |-> "nil"]
    ELSE [store |-> st \cup {InsertRow(id, m, t)}, scanErr |-> "nil",
          entity |-> <<ShortUrlModel(id, m.Link, 0, m.ExpTimeMinutes, ZeroTime, m.ShortCode)>>,
          err |-> "nil"]

\* SELECT link, times_clicked, exp_time_minutes, short_code, created_at
Scanned(r) ==
    ShortUrlModel(0, r.link, r.times_clicked, r.exp_time_minutes, r.created_at, r.short_code)

\* GetShortUrl without its sql.ErrNoRows branch: an empty result set falls
\* through to "return searched, nil" like any other error
GetShortUrlNoRowsFallsThrough(st, code, fault) ==
    IF fault = "PgError"
    THEN {[scanErr |-> "PgError", entity |-> Nil, err |-> "PgError"]}
    ELSE IF fault = "ConnError"
    THEN {[scanErr |-> "ConnError", entity |-> <<ZeroModel>>, err |-> "nil"]}
    ELSE IF RowsOf(st, code) = {}
    THEN {[scanErr |-> "ErrNoRows", entity |-> <<ZeroModel>>, err |-> "nil"]}
    ELSE {[scanErr |-> "nil", entity |-> <<Scanned(r)>>, err |-> "nil"] : r \in RowsOf(st, code)}

\* GetShortUrl: every result it can return; QueryRow keeps the first row of
\* the result set, in no specified order; an error that is neither a
\* *pgconn.PgError nor sql.ErrNoRows falls through to "return searched, nil"
GetShortUrl(st, code, fault) ==
    IF fault = "PgError"
    THEN {[scanErr |-> "PgError", entity |-> Nil, err |-> "PgError"]}
    ELSE IF fault = "ConnError"
    THEN {[scanErr |-> "ConnError", entity |-> <<ZeroModel>>, err |-> "nil"]}
    ELSE IF RowsOf(st, code) = {}
    THEN {[scanErr |-> "ErrNoRows", entity |-> Nil, err |-> "ErrNoRows"]}
    ELSE {[scanErr |-> "nil", entity |-> <<Scanned(r)>>, err |-> "nil"] : r \in RowsOf(st, code)}

\* the UPDATE also extending the lifespan of the rows it counts
ClickedExtendsLife(r, code) ==
    IF r.short_code = code
    THEN [r EXCEPT !.times_clicked = @ + 1, !.exp_time_minutes = @ + 1]
    ELSE r

\* the UPDATE writing 0 + 1, the increment of a count read before the row
\* was clicked, over whatever the row holds now
ClickedFromStaleRead(r, code) ==
    IF r.short_code = code THEN [r EXCEPT !.times_clicked = 1] ELSE r

\* the UPDATE with the sign of the increment wrong
ClickedDown(r, code) ==
    IF r.short_code = code THEN [r EXCEPT !.times_clicked = @ - 1] ELSE r

\* UPDATE short_url SET times_clicked = times_clicked + 1 WHERE short_code = $1
Clicked(r, code) ==
    IF r.short_code = code THEN [r EXCEPT !.times_clicked = @ + 1] ELSE r

UpdateTimesClicked(st, code, fault) ==
    IF fault # "none"
    THEN [store |-> st, err |-> fault]
    ELSE [store |-> {Clicked(r, code) : r \in st}, err |-> "nil"]

\* a comparison that spares the row at the very minute its lifespan ends
RowExpiredStrictly(r, t) == t > r.created_at + r.exp_time_minutes

\* NOW() >= created_at + (exp_time_minutes || ' minutes')::interval
RowExpired(r, t) == t >= r.created_at + r.exp_time_minutes

\* a DELETE that spares the rows nobody has resolved yet
DeleteExpiredLinksClickedOnly(st, t, fault) ==
    IF fault # "none"
    THEN [store |-> st, err |-> fault]
    ELSE [store |-> {r \in st : ~(RowExpired(r, t) /\ r.times_clicked > 0)},
          err |-> "nil"]

DeleteExpiredLinks(st, t, fault) ==
    IF fault # "none"
    THEN [store |-> st, err |-> fault]
    ELSE [store |-> {r \in st : ~RowExpired(r, t)}, err |-> "nil"]

\* ---- the handlers (routes.go) -----------------------------------------
\* requests are numbered in the order in which they arrive
Arrives(q) == pc[q] = "idle" /\ (IF q = 1 THEN TRUE ELSE pc[q - 1] # "idle")

Response(status, data) == [status |-> status, data |-> data]

\* expireAt := entity.CreatedAt.Add(time.Duration(entity.ExpTimeMinutes) * time.Minute)
expireAt(m) == m.CreatedAt + m.ExpTimeMinutes
\* time.Time.After
After(t, u) == t > u

Init ==
    /\ store = {}
    /\ nextId = 1
    /\ assigned = {}
    /\ now = 0
    /\ cronDue = FALSE
    /\ reaped = "never"
    /\ pc = [q \in Requests |-> "idle"]
    /\ handler = [q \in Requests |-> ""]
    /\ shortCode = [q \in Requests |-> ""]
    /\ new = [q \in Requests |-> ZeroModel]
    /\ scanErr = [q \in Requests |-> "nil"]
    /\ entity = [q \in Requests |-> Nil]
    /\ err = [q \in Requests |-> "nil"]
    /\ resp = [q \in Requests |-> <<>>]

\* the handler of request q ends at position p ("done", or "panic") having
\* written w; its local variables go out of scope
Return(q, p, w) ==
    /\ pc' = [pc EXCEPT ![q] = p]
    /\ resp' = [resp EXCEPT ![q] = w]
    /\ shortCode' = [shortCode EXCEPT ![q] = ""]
    /\ new' = [new EXCEPT ![q] = ZeroModel]
    /\ entity' = [entity EXCEPT ![q] = Nil]
    /\ err' = [err EXCEPT ![q] = "nil"]

\* POST /short, lines 105-117: the body is decoded and the code generated
shortLinkBegin(q, link, ttl, code) ==
    /\ Arrives(q)
    /\ handler' = [handler EXCEPT ![q] = "shortLink"]
    /\ new' = [new EXCEPT ![q] = ShortUrlModel(0, link, 0, ttl, ZeroTime, code)]
    /\ pc' = [pc EXCEPT ![q] = "save"]
    /\ UNCHANGED <<store, nextId, assigned, now, cronDue, reaped, shortCode, scanErr,
                   entity, err, resp>>

\* lines 119-146: SaveShortUrl and the response
shortLinkHandler(q, fault) ==
    LET res == SaveShortUrl(store, nextId, new[q], now, fault)
        failed == IF res.err # "nil" THEN <<Response(500, "")>> ELSE <<>>
    IN  /\ pc[q] = "save"
        /\ store' = res.store
        /\ nextId' = IF fault = "none" THEN nextId + 1 ELSE nextId
        /\ assigned' = IF fault = "none"
                       THEN assigned \cup {new[q].ShortCode} ELSE assigned
        /\ scanErr' = [scanErr EXCEPT ![q] = res.scanErr]
        \* no return after the 500 body: entity.ShortCode is read next, and
        \* that read panics when entity is nil
        /\ IF res.entity = Nil
           THEN Return(q, "panic", failed)
           ELSE Return(q, "done", failed \o <<Response(200, res.entity[1].ShortCode)>>)
        /\ UNCHANGED <<now, cronDue, reaped, handler>>

\* GET /short/{short_code}, line 58
redirectBegin(q, code) ==
    /\ Arrives(q)
    /\ handler' = [handler EXCEPT ![q] = "redirect"]
    /\ shortCode' = [shortCode EXCEPT ![q] = code]
    /\ pc' = [pc EXCEPT ![q] = "lookup"]
    /\ UNCHANGED <<store, nextId, assigned, now, cronDue, reaped, new, scanErr,
                   entity, err, resp>>

\* lines 61-74: GetShortUrl and its error branch
redirectLookup(q, fault) ==
    /\ pc[q] = "lookup"
    /\ \E res \in GetShortUrl(store, shortCode[q], fault) :
          /\ scanErr' = [scanErr EXCEPT ![q] = res.scanErr]
          /\ IF res.err # "nil"
             THEN Return(q, "done", <<Response(404, "")>>)
             ELSE /\ entity' = [entity EXCEPT ![q] = res.entity]
                  /\ err' = [err EXCEPT ![q] = res.err]
                  /\ pc' = [pc EXCEPT ![q] = "check"]
                  /\ UNCHANGED <<shortCode, new, resp>>
    /\ UNCHANGED <<store, nextId, assigned, now, cronDue, reaped, handler>>

\* lines 76-94: the expiry check, then the 410 body or the redirect
redirectCheck(q) ==
    /\ pc[q] = "check"
    /\ IF After(now, expireAt(entity[q][1]))
       THEN Return(q, "done", <<Response(410, "")>>)
       ELSE /\ resp' = [resp EXCEPT ![q] = <<Response(303, entity[q][1].Link)>>]
            /\ pc' = [pc EXCEPT ![q] = "update"]
            /\ UNCHANGED <<shortCode, new, entity, err>>
    /\ UNCHANGED <<store, nextId, assigned, now, cronDue, reaped, handler, scanErr>>

\* line 95 with the error of UpdateTimesClicked turned into a 500 body
redirectUpdateErrorSurfaced(q, fault) ==
    /\ pc[q] = "update"
    /\ store' = UpdateTimesClicked(store, shortCode[q], fault).store
    /\ IF UpdateTimesClicked(store, shortCode[q], fault).err # "nil"
       THEN Return(q, "done", <<Response(500, "")>>)
       ELSE Return(q, "done", resp[q])
    /\ UNCHANGED <<nextId, assigned, now, cronDue, reaped, handler, scanErr>>

\* line 95: s.db.UpdateTimesClicked(shortCode), its result dropped
redirectUpdate(q, fault) ==
    /\ pc[q] = "update"
    /\ store' = UpdateTimesClicked(store, shortCode[q], fault).store
    /\ Return(q, "done", resp[q])
    /\ UNCHANGED <<nextId, assigned, now, cronDue, reaped, handler, scanErr>>

\* ---- the cron job (cmd/cronjobs) and the clock --------------------------
\* a minute passes; the entry "*/1 * * * *" becomes due
Tick ==
    /\ now < MaxTime
    /\ ~cronDue
    /\ now' = now + 1
    /\ cronDue' = TRUE
    /\ UNCHANGED <<store, nextId, assigned, reaped>>
    /\ UNCHANGED reqVars

\* a cron entry that stays due after a failed run, and so runs it again
cronJobRetries(fault) ==
    LET res == DeleteExpiredLinks(store, now, fault)
    IN  /\ cronDue
        /\ cronDue' = (fault # "none")
        /\ store' = res.store
        /\ reaped' = res.err
        /\ UNCHANGED <<nextId, assigned, now>>
        /\ UNCHANGED reqVars

\* the cron entry runs: func() { db.DeleteExpiredLinks() }
cronJob(fault) ==
    LET res == DeleteExpiredLinks(store, now, fault)
    IN  /\ cronDue
        /\ cronDue' = FALSE
        /\ store' = res.store
        /\ reaped' = res.err
        /\ UNCHANGED <<nextId, assigned, now>>
        /\ UNCHANGED reqVars

Next ==
    \/ \E q \in Requests, link \in Links, ttl \in TTLs, code \in Codes :
          shortLinkBegin(q, link, ttl, code)
    \/ \E q \in Requests, fault \in Faults : shortLinkHandler(q, fault)
    \/ \E q \in Requests, code \in Codes : redirectBegin(q, code)
    \/ \E q \in Requests, fault \in Faults : redirectLookup(q, fault)
    \/ \E q \in Requests : redirectCheck(q)
    \/ \E q \in Requests, fault \in ExecFaults : redirectUpdate(q, fault)
    \/ Tick
    \/ \E fault \in ExecFaults : cronJob(fault)

Spec == Init /\ [][Next]_vars

\* ---- the cron process as it runs for ever (c.Start(); select {}) --------
\* a minute passes after the last one observed: the entry becomes due again,
\* and the clock reading stays at MaxTime, so a lifespan that has not ended
\* by MaxTime never ends
TickBeyond ==
    /\ now = MaxTime
    /\ ~cronDue
    /\ cronDue' = TRUE
    /\ UNCHANGED <<store, nextId, assigned, now, reaped>>
    /\ UNCHANGED reqVars

NextLive == Next \/ TickBeyond

\* the scheduler of robfig/cron sleeps until the next minute and starts the
\* entry's func in a goroutine of its own: the clock advances and a due entry
\* runs. PostgreSQL answers infinitely many of the runs.
Fairness ==
    /\ WF_vars(Tick)
    /\ WF_vars(TickBeyond)
    /\ WF_vars(\E fault \in ExecFaults : cronJob(fault))
    /\ SF_vars(cronJob("none"))

LiveSpec == Init /\ [][NextLive]_vars /\ Fairness

TypeOK ==
    /\ now \in 0..MaxTime
    /\ nextId \in 1..(NumRequests + 1)
    /\ \A r \in store : r.id < nextId /\ r.short_code \in Codes
    /\ \A q \in Requests : pc[q] \in {"idle", "save", "lookup", "check", "update", "done", "panic"}

\* ---- steps and outcomes, as the properties below name them -------------
SaveStep(q) == pc[q] = "save" /\ pc'[q] # "save"
LookupStep(q) == pc[q] = "lookup" /\ pc'[q] # "lookup"
CheckStep(q) == pc[q] = "check" /\ pc'[q] # "check"
UpdateStep(q) == pc[q] = "update" /\ pc'[q] # "update"
CronStep == cronDue /\ ~cronDue'
\* the store answered the query of request q (no PgError, no failed connection)
Answered(e) == e \in {"nil", "ErrNoRows"}
NotFound == <<Response(404, "")>>
Expired == <<Response(410, "")>>
ServerError == <<Response(500, "")>>
Redirect(link) == <<Response(303, link)>>
Created(code) == <<Response(200, code)>>

\* an UpdateTimesClicked that reported no error
UpdateSucceeded(q) == store' = UpdateTimesClicked(store, shortCode[q], "none").store

\* ---- C1 ----------------------------------------------------------------
\* C1: for every stored record, a resolution of its code whose lookup the
\* store answered and whose time check is made at now < created_at +
\* exp_time_minutes ends in the redirect to that record's link, and its
\* (successful) UpdateTimesClicked leaves that record with times_clicked
\* exactly 1 higher.
C1_LiveResolutionRedirectsAndCounts ==
    [][\A q \in Requests : \A r \in store :
          (r.short_code = shortCode[q] /\ scanErr[q] = "nil") =>
             /\ (CheckStep(q) /\ now < r.created_at + r.exp_time_minutes)
                   => (resp'[q] = Redirect(r.link) /\ pc'[q] = "update")
             /\ (UpdateStep(q) /\ UpdateSucceeded(q))
                   => [r EXCEPT !.times_clicked = @ + 1] \in store']_vars

\* ---- C2 ----------------------------------------------------------------
\* C2: for every stored record, a resolution of its code whose time check is
\* made at now >= created_at + exp_time_minutes ends in the 410 body, never
\* in a redirect, and leaves the table as it was.
C2_ExpiredResolutionNeverRedirects ==
    [][\A q \in Requests : \A r \in store :
          (CheckStep(q) /\ scanErr[q] = "nil" /\ r.short_code = shortCode[q]
             /\ now >= r.created_at + r.exp_time_minutes)
          => (resp'[q] = Expired /\ pc'[q] = "done" /\ store' = store)]_vars

\* ---- C3 ----------------------------------------------------------------
\* C3: when the lookup found a record and the time check is made at exactly
\* created_at + exp_time_minutes of that record, the resolution answers 410,
\* issues no redirect and does not go on to UpdateTimesClicked.
C3_ExpiryInstantIsExpired ==
    [][\A q \in Requests :
          (CheckStep(q) /\ scanErr[q] = "nil" /\ now = expireAt(entity[q][1]))
          => (resp'[q] = Expired /\ pc'[q] = "done")]_vars

\* ---- C4 ----------------------------------------------------------------
\* C4: no two rows of the table have the same short_code, and an insert
\* whose short_code was ever assigned (to a row still stored or since
\* deleted) fails and inserts nothing.
C4_ShortCodeUnique ==
    /\ [](\A r1 \in store : \A r2 \in store : r1.short_code = r2.short_code => r1 = r2)
    /\ [][\A q \in Requests :
             (SaveStep(q) /\ new[q].ShortCode \in assigned)
             => (store' = store /\ scanErr'[q] # "nil")]_vars

\* ---- C5 ----------------------------------------------------------------
\* C5: two creation requests whose inserts both succeeded end with their
\* records under distinct codes, also when their generators returned the
\* same code: the codes answered to the two callers differ.
C5_CollidingCreationsEndWithDistinctCodes ==
    \A q1 \in Requests : \A q2 \in Requests :
        (q1 # q2 /\ handler[q1] = "shortLink" /\ handler[q2] = "shortLink"
           /\ pc[q1] = "done" /\ pc[q2] = "done"
           /\ scanErr[q1] = "nil" /\ scanErr[q2] = "nil")
        => resp[q1] # resp[q2]

\* ---- C6 ----------------------------------------------------------------
\* C6: right after a creation whose insert succeeded, every result that
\* GetShortUrl can return for the code answered to the caller is the record
\* of that creation: the submitted link and exp_time_minutes, times_clicked 0.
C6_CreateThenGetRoundTrip ==
    [][\A q \in Requests : \A code \in Codes \cup {""} :
          (SaveStep(q) /\ scanErr'[q] = "nil" /\ resp'[q] = Created(code))
          => \A res \in GetShortUrl(store', code, "none") :
                /\ res.err = "nil"
                /\ res.entity[1].Link = new[q].Link
                /\ res.entity[1].ExpTimeMinutes = new[q].ExpTimeMinutes
                /\ res.entity[1].TimesClicked = 0]_vars

\* ---- C7 ----------------------------------------------------------------
\* C7: when the store operation of a creation request fails, the handler
\* writes the 500 body and nothing else, and returns normally.
C7_StoreFailureAnswers500Only ==
    [][\A q \in Requests :
          (SaveStep(q) /\ scanErr'[q] # "nil")
          => (resp'[q] = ServerError /\ pc'[q] = "done")]_vars

\* ---- C8 ----------------------------------------------------------------
\* C8: a resolution whose lookup failed because the store was unavailable
\* never writes the 404 body, the 410 body or a redirect, and ends in the
\* server-error outcome.
C8_UnavailableIsServerError ==
    \A q \in Requests :
        (handler[q] = "redirect" /\ scanErr[q] \in {"PgError", "ConnError"})
        => /\ resp[q] \in {<<>>, ServerError}
           /\ pc[q] = "done" => resp[q] = ServerError

C10_ReapedCodeIsNotFound ==
    [][(CronStep /\ reaped' = "nil")
          => \A r \in store :
                RowExpired(r, now)
                => \A res \in GetShortUrl(store', r.short_code, "none") :
                      res.err = "ErrNoRows"]_vars

\* ---- C11 ---------------------------------------------------------------
\* C11: a resolution that found a record and judged it live has written the
\* redirect to that record's link before it calls UpdateTimesClicked, and
\* whatever UpdateTimesClicked returns, the resolution ends with that
\* redirect as its only response.
C11_RedirectSurvivesFailedIncrement ==
    [][\A q \in Requests :
          /\ (CheckStep(q) /\ pc'[q] = "update")
                => resp'[q] = Redirect(entity[q][1].Link)
          /\ UpdateStep(q)
                => (resp'[q] = Redirect(entity[q][1].Link) /\ pc'[q] = "done")]_vars

\* a resolution has ended with its redirect although its UpdateTimesClicked
\* failed: no row was ever deleted, and no row has a click counted
C11_Witness ==
    \E q \in Requests :
        /\ handler[q] = "redirect" /\ pc[q] = "done" /\ scanErr[q] = "nil"
        /\ \E link \in Links : resp[q] = Redirect(link)
        /\ reaped = "never" /\ store # {}
        /\ \A r \in store : r.times_clicked = 0

\* ---- C12 ---------------------------------------------------------------
\* C12: in every step, a row that enters the table has times_clicked 0, and
\* a row that stays in the table has a times_clicked no lower than before.
C12_TimesClickedMonotone ==
    [][\A r2 \in store' :
          IF \E r1 \in store : r1.id = r2.id
          THEN \A r1 \in store : r1.id = r2.id => r2.times_clicked >= r1.times_clicked
          ELSE r2.times_clicked = 0]_vars

\* a record created with times_clicked 0 has been resolved twice
C12_Witness == \E r \in store : r.times_clicked = 2

\* ---- C13 ---------------------------------------------------------------
\* C13: in every step, a row that stays in the table keeps its link, its
\* exp_time_minutes, its short_code and its created_at; times_clicked is the
\* only column of an existing row that a step can change.
C13_OnlyTimesClickedChanges ==
    [][\A r1 \in store : \A r2 \in store' :
          r1.id = r2.id => r2 = [r1 EXCEPT !.times_clicked = r2.times_clicked]]_vars

\* a row has been counted once, a second row was created beside it, and the
\* cron job has run successfully over both
C13_Witness ==
    /\ \E r \in store : r.times_clicked = 1
    /\ Cardinality(store) = 2
    /\ reaped = "nil"

\* ---- C14 ---------------------------------------------------------------
\* C14: a record created with exp_time_minutes = 0 is never redirected: a
\* resolution whose lookup returned it answers 410 and does not go on to
\* UpdateTimesClicked, and its times_clicked is 0 for as long as it is stored.
C14_ZeroTTLNeverRedirects ==
    /\ [][\A q \in Requests :
             (CheckStep(q) /\ scanErr[q] = "nil" /\ entity[q][1].ExpTimeMinutes = 0)
             => (resp'[q] = Expired /\ pc'[q] = "done")]_vars
    /\ [](\A r \in store : r.exp_time_minutes = 0 => r.times_clicked = 0)

\* ---- C15 ---------------------------------------------------------------
\* C15: each firing of the cron entry runs DeleteExpiredLinks exactly once:
\* a run happens only on a due firing and uses it up, and every firing is
\* followed by its run. A run that fails changes nothing, leaves the entry
\* not due (no retry before the next firing), and is followed by the next
\* firing, whose run follows in turn.
C15_OneRunPerFiringFailuresIncluded ==
    /\ [][ /\ ((reaped' # reaped \/ \E r \in store : \A r2 \in store' : r2.id # r.id)
                 => CronStep)
           /\ CronStep => (reaped' \in {"nil", "ConnError"} /\ now' = now)
           /\ (CronStep /\ reaped' # "nil") => (store' = store /\ ~cronDue')
           /\ (~cronDue /\ cronDue') => (store' = store /\ reaped' = reaped) ]_vars
    /\ (cronDue ~> ~cronDue)
    /\ ((~cronDue /\ reaped = "ConnError") ~> cronDue)

\* the last run failed and the entry has fired again
C15_Witness == reaped = "ConnError" /\ cronDue /\ now = MaxTime /\ store # {}

\* ---- C16 ---------------------------------------------------------------
\* C16: while the cron entry keeps firing and PostgreSQL answers infinitely
\* many of its runs, every row that is in the store at a time now >=
\* created_at + exp_time_minutes is eventually gone from the store, whether
\* or not a request ever resolves its code.
C16_ExpiredRowEventuallyDeleted ==
    \A id \in 1..NumRequests :
        (\E r \in store : r.id = id /\ RowExpired(r, now))
            ~> (\A r \in store : r.id # id)

\* two rows were stored, no request resolved a code, and a run has emptied
\* the store
C16_Witness ==
    /\ nextId = 3 /\ store = {} /\ reaped = "nil"
    /\ \A q \in Requests : handler[q] # "redirect"
    /\ pc[3] = "idle"

\* ---- C17 ---------------------------------------------------------------
\* C17: a DeleteExpiredLinks run at time now that PostgreSQL answers leaves,
\* in one step, exactly the rows with created_at + exp_time_minutes > now,
\* each with all its fields as before; a run that fails leaves the store as
\* it was.
C17_DeleteExpiredLinksFrame ==
    [][CronStep =>
          IF reaped' = "nil"
          THEN store' = {r \in store : r.created_at + r.exp_time_minutes > now}
          ELSE store' = store]_vars

\* an answered run at minute 1 has removed one of two rows and kept the other
C17_Witness ==
    /\ reaped = "nil" /\ ~cronDue /\ now = 1
    /\ nextId = 3 /\ Cardinality(store) = 1
    /\ \A r \in store : r.created_at + r.exp_time_minutes > 1

\* ---- C18 ---------------------------------------------------------------
\* C18: every step that raises times_clicked of a row is the UpdateTimesClicked
\* of a resolution request whose own lookup returned that row and whose check
\* judged it live (it has written the redirect); so times_clicked of a row
\* never exceeds the number of resolutions that ended in redirect.
C18_IncrementOnlyAfterLiveLookup ==
    /\ [][\A r1 \in store : \A r2 \in store' :
             (r1.id = r2.id /\ r2.times_clicked > r1.times_clicked)
             => \E q \in Requests :
                   /\ UpdateStep(q)
                   /\ scanErr[q] = "nil"
                   /\ resp[q] = Redirect(r1.link)
                   /\ entity[q][1] = [Scanned(r1) EXCEPT
                                         !.TimesClicked = entity[q][1].TimesClicked]]_vars
    /\ [](\A r \in store :
             r.times_clicked <= Cardinality({q \in Requests :
                 /\ handler[q] = "redirect"
                 /\ pc[q] \in {"update", "done"}
                 /\ \E link \in Links : resp[q] = Redirect(link)}))

C20_IncrementAfterReapChangesNothing ==
    [][\A q \in Requests :
          /\ ( /\ UpdateStep(q)
               /\ scanErr[q] = "nil"
               /\ \A r \in store :
                     entity[q][1] # [Scanned(r) EXCEPT
                                      !.TimesClicked = entity[q][1].TimesClicked] )
             => /\ resp'[q] = Redirect(entity[q][1].Link)
                /\ pc'[q] = "done"
                /\ UpdateTimesClicked(store, shortCode[q], "none")
                      = [store |-> store, err |-> "nil"]
                /\ store' = store
          /\ UpdateStep(q)
             => /\ {r.id : r \in store'} = {r.id : r \in store}
                /\ \A r \in store : r.short_code # shortCode[q] => r \in store']_vars
====
